---- MODULE Spec2Model ----
(***************************************************************************)
(* type-sizes-rs: the layout builder (src/src/parse_layouts.rs), the       *)
(* verification engine (src/src/types.rs) and the driver loop that applies *)
(* one to the other (src/src/main.rs).                                     *)
(*                                                                         *)
(* Abstractions.                                                           *)
(*  - A text line is a record: `shape` says which of the anchored regular  *)
(*    expressions of parse_layouts.rs matches it (they are mutually        *)
(*    exclusive: each demands a different keyword right after the marker), *)
(*    the other fields are the regex captures.  A numeric capture is the   *)
(*    value of the digit string \d+, which may exceed u64::MAX.            *)
(*  - u64 is scaled down: the largest value is U64Max, and arithmetic      *)
(*    overflows above it exactly as u64 arithmetic overflows above         *)
(*    2^64 - 1 (abort with overflow checks, wrap-around without).          *)
(*  - A name is a sequence of characters, so that trim_matches (of        *)
(*    backticks) is a computation on it.                                   *)
(***************************************************************************)
EXTENDS Integers, Sequences, FiniteSets, TLC

VARIABLES
    pc,               \* "reading" (the loop of parse_layouts), "verifying" (the loop
                      \* of main), "panicked" (the process aborted)
    overflow_checks,  \* the build: TRUE = overflow checks on (debug), FALSE = off (release)
    blocks,           \* the lines reader.lines() has yielded so far, cut at the type
                      \* headers: one block per header, the header first (the lines
                      \* before the first header belong to no block)
    layouts,          \* parse_layouts: `layouts`
    current_layout,   \* parse_layouts: `current_layout`
    current_variant,  \* parse_layouts: `current_variant`
    outcomes          \* main: the results of layout.verify(), in order

vars == <<pc, overflow_checks, blocks, layouts, current_layout, current_variant, outcomes>>

(***************************************************************************)
(* Bounds                                                                  *)
(***************************************************************************)
\* The scaled u64::MAX.
U64Max == 3
\* The longest input, in lines counted from the first type header.
MaxLines == 4

\* A digit string whose value does not fit in a u64.
TooBig == U64Max + 1

(***************************************************************************)
(* Option<T>                                                               *)
(***************************************************************************)
None == <<>>
Some(x) == <<x>>
IsSome(o) == o # <<>>
Unwrap(o) == o[1]

(***************************************************************************)
(* types.rs: the data model                                                *)
(***************************************************************************)
Field(name, size, alignment, offset) ==
    [name |-> name, size |-> size, alignment |-> alignment, offset |-> offset]

ClosureVar(name, size, offset, alignment, type_info) ==
    [name |-> name, size |-> size, offset |-> offset, alignment |-> alignment,
     type_info |-> type_info]

EntryField(f) == [tag |-> "Field", val |-> f]
EntryUpvar(c) == [tag |-> "Upvar", val |-> c]
EntryLocal(c) == [tag |-> "Local", val |-> c]
EntryPadding(size) == [tag |-> "Padding", size |-> size]

Variant(name, size, entries) == [name |-> name, size |-> size, entries |-> entries]

KindStruct(entries) == [tag |-> "Struct", entries |-> entries]
KindEnum(discriminant_size, variants) ==
    [tag |-> "Enum", discriminant_size |-> discriminant_size, variants |-> variants]
KindUnion(fields) == [tag |-> "Union", fields |-> fields]

TypeLayout(name, size, alignment, kind, unhandled_lines, raw_lines) ==
    [name |-> name, size |-> size, alignment |-> alignment, kind |-> kind,
     unhandled_lines |-> unhandled_lines, raw_lines |-> raw_lines]

\* VerificationError, and Ok(()).
Ok == [tag |-> "Ok"]
StructSizeMismatch(expected, actual) ==
    [tag |-> "StructSizeMismatch", expected |-> expected, actual |-> actual]
VariantSizeMismatch(variant_name, expected, actual) ==
    [tag |-> "VariantSizeMismatch", variant_name |-> variant_name,
     expected |-> expected, actual |-> actual]
UnionSizeMismatch(expected, actual_max) ==
    [tag |-> "UnionSizeMismatch", expected |-> expected, actual_max |-> actual_max]
EnumTotalSizeMismatch(expected, calculated_min) ==
    [tag |-> "EnumTotalSizeMismatch", expected |-> expected,
     calculated_min |-> calculated_min]
\* verify did not return: an arithmetic overflow aborted it.
Overflowed == [tag |-> "Overflowed"]

(***************************************************************************)
(* types.rs: u64 arithmetic                                                *)
(***************************************************************************)
\* a + b on u64: the sum when it fits; otherwise an abort (overflow checks
\* on) or the sum modulo 2^64 (overflow checks off).  The abort is the
\* value -1, which every later addition propagates.
AddU64(a, b, checks) ==
    IF a < 0 \/ b < 0 THEN -1
    ELSE IF a + b <= U64Max THEN a + b
    ELSE IF checks THEN -1
    ELSE (a + b) % (U64Max + 1)

MaxU64(a, b) == IF a >= b THEN a ELSE b

\* StructEntry::size
EntrySize(e) ==
    CASE e.tag = "Field" -> e.val.size
      [] e.tag = "Upvar" -> e.val.size
      [] e.tag = "Local" -> e.val.size
      [] e.tag = "Padding" -> e.size

\* entries.iter().map(|e| e.size()).sum(): a left fold of + from 0.
RECURSIVE SumFrom(_, _, _)
SumFrom(entries, acc, checks) ==
    IF entries = <<>> THEN acc
    ELSE SumFrom(Tail(entries), AddU64(acc, EntrySize(Head(entries)), checks), checks)

SumEntries(entries, checks) == SumFrom(entries, 0, checks)

\* iter().map(|x| x.size).max().unwrap_or(0)
RECURSIVE MaxSizeFrom(_, _)
MaxSizeFrom(xs, acc) ==
    IF xs = <<>> THEN acc ELSE MaxSizeFrom(Tail(xs), MaxU64(acc, Head(xs).size))

MaxSize(xs) == MaxSizeFrom(xs, 0)

(***************************************************************************)
(* types.rs: TypeLayout::verify                                            *)
(***************************************************************************)
\* A faulty verify for structs, which accepts a struct whose entries are
\* smaller than its declared size.
VerifyStructAtLeast(layout, checks) ==
    LET calculated_size == SumEntries(layout.kind.entries, checks) IN
    IF calculated_size < 0 THEN Overflowed
    ELSE IF layout.size >= calculated_size THEN Ok
    ELSE StructSizeMismatch(layout.size, calculated_size)

VerifyStruct(layout, checks) ==
    LET calculated_size == SumEntries(layout.kind.entries, checks) IN
    IF calculated_size < 0 THEN Overflowed
    ELSE IF layout.size = calculated_size THEN Ok
    ELSE StructSizeMismatch(layout.size, calculated_size)

\* One iteration of `for variant in variants`: Ok stands for `continue`.
VerifyVariant(variant, discriminant_size, checks) ==
    LET calculated_variant_size == SumEntries(variant.entries, checks)
        expected_size == variant.size
    IN  IF calculated_variant_size < 0 THEN Overflowed
        ELSE IF calculated_variant_size = expected_size THEN Ok
        ELSE IF discriminant_size > 0
             THEN LET inclusive == AddU64(expected_size, discriminant_size, checks) IN
                  IF inclusive < 0 THEN Overflowed
                  ELSE IF calculated_variant_size = inclusive THEN Ok
                  ELSE VariantSizeMismatch(variant.name, expected_size,
                                           calculated_variant_size)
        ELSE VariantSizeMismatch(variant.name, expected_size, calculated_variant_size)

\* The loop over the variants: the first iteration that does not `continue`
\* decides.
RECURSIVE VerifyVariants(_, _, _)
VerifyVariants(variants, discriminant_size, checks) ==
    IF variants = <<>> THEN Ok
    ELSE LET r == VerifyVariant(Head(variants), discriminant_size, checks) IN
         IF r # Ok THEN r
         ELSE VerifyVariants(Tail(variants), discriminant_size, checks)

VerifyEnumTotal(layout, checks) ==
    LET discriminant_size == layout.kind.discriminant_size
        max_variant_size == MaxSize(layout.kind.variants)
        min_required_additive == AddU64(discriminant_size, max_variant_size, checks)
        min_required_niche == MaxU64(discriminant_size, max_variant_size)
    IN  IF min_required_additive < 0 THEN Overflowed
        ELSE IF layout.size >= min_required_additive \/ layout.size = min_required_niche
        THEN Ok
        ELSE EnumTotalSizeMismatch(layout.size, min_required_additive)

VerifyEnum(layout, checks) ==
    LET r == VerifyVariants(layout.kind.variants, layout.kind.discriminant_size, checks)
    IN  IF r # Ok THEN r ELSE VerifyEnumTotal(layout, checks)

\* A faulty verify for unions, which takes the last field for the largest.
VerifyUnionByLast(layout) ==
    LET n == Len(layout.kind.fields)
        max_field_size == IF n = 0 THEN 0 ELSE layout.kind.fields[n].size IN
    IF layout.size = max_field_size THEN Ok
    ELSE UnionSizeMismatch(layout.size, max_field_size)

VerifyUnion(layout) ==
    LET max_field_size == MaxSize(layout.kind.fields) IN
    IF layout.size = max_field_size THEN Ok
    ELSE UnionSizeMismatch(layout.size, max_field_size)

verify(layout, checks) ==
    CASE layout.kind.tag = "Struct" -> VerifyStruct(layout, checks)
      [] layout.kind.tag = "Enum" -> VerifyEnum(layout, checks)
      [] layout.kind.tag = "Union" -> VerifyUnion(layout)

(***************************************************************************)
(* parse_layouts.rs: the lines and the line grammar                        *)
(***************************************************************************)
\* A line of the input.  `shape` is the regular expression that matches it
\* ("other": it holds the marker print-type-size and no expression matches;
\* "plain": it is not blank and does not hold the marker; "blank": trim()
\* leaves nothing).  `name`, `size`, `alignment`, `offset`, `type_info` are
\* the captures; a shape without a capture carries None (or 0, or <<>>).
Line(shape, name, size, alignment, offset, type_info) ==
    [shape |-> shape, name |-> name, size |-> size, alignment |-> alignment,
     offset |-> offset, type_info |-> type_info]

IsBlank(line) == line.shape = "blank"
ContainsMarker(line) == line.shape \notin {"blank", "plain"}
RE_TYPE(line) == line.shape = "type"
RE_FIELD(line) == line.shape = "field"
RE_PADDING(line) == line.shape = "padding"
RE_END_PADDING(line) == line.shape = "end_padding"
RE_VARIANT(line) == line.shape = "variant"
RE_DISCRIMINANT(line) == line.shape = "discriminant"
RE_UPVAR(line) == line.shape = "upvar"
RE_LOCAL(line) == line.shape = "local"

\* str::parse::<u64>() of a capture (\d+) succeeds when the value fits.
ParsesU64(n) == n <= U64Max
ParsesOptU64(o) == o = None \/ ParsesU64(Unwrap(o))

\* The .parse().unwrap() calls of the branch a line takes all succeed.
ParsesAll(line) ==
    /\ ParsesU64(line.size)
    /\ ParsesOptU64(line.alignment)
    /\ ParsesOptU64(line.offset)

\* The backtick character, as an element of a name.
Tick == "tick"

\* name_with_ticks.trim_matches(backtick)
RECURSIVE TrimStart(_)
TrimStart(s) == IF s # <<>> /\ Head(s) = Tick THEN TrimStart(Tail(s)) ELSE s

RECURSIVE TrimEnd(_)
TrimEnd(s) ==
    IF s # <<>> /\ s[Len(s)] = Tick THEN TrimEnd(SubSeq(s, 1, Len(s) - 1)) ELSE s

TrimTicks(s) == TrimEnd(TrimStart(s))

(***************************************************************************)
(* parse_layouts.rs: finalize_layout                                       *)
(***************************************************************************)
\* if let Some(variant) = current_variant.take() { if Enum { variants.push } }
CloseVariant(layout, variant) ==
    IF IsSome(variant) /\ layout.kind.tag = "Enum"
    THEN [layout EXCEPT !.kind.variants = Append(@, Unwrap(variant))]
    ELSE layout

IsFieldEntry(e) == e.tag = "Field"

\* entries.into_iter().filter_map(Field(f) => Some(f), _ => None).collect()
FieldsOf(entries) ==
    LET kept == SelectSeq(entries, IsFieldEntry) IN
    [i \in 1..Len(kept) |-> kept[i].val]

\* A faulty reclassification, which does not compare the names.
ReclassifyAnyName(layout) ==
    IF /\ layout.kind.tag = "Enum"
       /\ Len(layout.kind.variants) = 1
    THEN [layout EXCEPT !.kind = KindUnion(FieldsOf(layout.kind.variants[1].entries))]
    ELSE layout

\* The second half of finalize_layout: the one-variant enum named as its
\* layout becomes a union.
Reclassify(layout) ==
    IF /\ layout.kind.tag = "Enum"
       /\ Len(layout.kind.variants) = 1
       /\ layout.kind.variants[1].name = layout.name
    THEN [layout EXCEPT !.kind = KindUnion(FieldsOf(layout.kind.variants[1].entries))]
    ELSE layout

\* finalize_layout(&mut layout, &mut current_variant): the layout it leaves
\* (it always leaves current_variant None).
finalize_layout(layout, variant) == Reclassify(CloseVariant(layout, variant))

(***************************************************************************)
(* parse_layouts.rs: the body of `for line_result in reader.lines()`       *)
(***************************************************************************)
\* The builder: the locals of parse_layouts, and where the process is.
Builder ==
    [pc |-> pc, layouts |-> layouts, current_layout |-> current_layout,
     current_variant |-> current_variant]

\* A failed .unwrap(): the process aborts and nothing is returned.
Panic(b) == [b EXCEPT !.pc = "panicked"]

\* A faulty flush, which leaves the open variant for the next layout.
FlushLayoutKeepsVariant(b) ==
    IF IsSome(b.current_layout)
    THEN [b EXCEPT !.layouts = Append(@, finalize_layout(Unwrap(b.current_layout),
                                                        b.current_variant)),
                   !.current_layout = None]
    ELSE b

\* if let Some(mut layout) = current_layout.take() { finalize; layouts.push }
FlushLayout(b) ==
    IF IsSome(b.current_layout)
    THEN [b EXCEPT !.layouts = Append(@, finalize_layout(Unwrap(b.current_layout),
                                                        b.current_variant)),
                   !.current_layout = None,
                   !.current_variant = None]
    ELSE b

\* A faulty type-header branch, which drops the open layout.
TypeBranchDropsOpen(b, line) ==
    LET dropped == [b EXCEPT !.current_layout = None, !.current_variant = None] IN
    IF ~(ParsesU64(line.size) /\ ParsesOptU64(line.alignment)) THEN Panic(dropped)
    ELSE [dropped EXCEPT !.current_layout =
              Some(TypeLayout(line.name, line.size, Unwrap(line.alignment),
                              KindStruct(<<>>), <<>>, <<line>>))]

\* Lines 52-68: a type header.
TypeBranch(b, line) ==
    LET flushed == FlushLayout(b) IN
    IF ~(ParsesU64(line.size) /\ ParsesOptU64(line.alignment)) THEN Panic(flushed)
    ELSE [flushed EXCEPT !.current_layout =
              Some(TypeLayout(line.name, line.size, Unwrap(line.alignment),
                              KindStruct(<<>>), <<>>, <<line>>))]

\* A faulty variant-header branch, which hands the entries of the struct to
\* the first variant.
VariantBranchInheritsEntries(b, line) ==
    LET open == Unwrap(b.current_layout)
        layout == CloseVariant(open, b.current_variant) IN
    IF ~ParsesU64(line.size) THEN Panic(b)
    ELSE [b EXCEPT
            !.current_variant =
                Some(Variant(TrimTicks(line.name), line.size,
                             IF open.kind.tag = "Struct" THEN open.kind.entries
                             ELSE <<>>)),
            !.current_layout =
                Some(IF layout.kind.tag = "Struct"
                     THEN [layout EXCEPT !.kind = KindEnum(0, <<>>)]
                     ELSE layout)]

\* A faulty variant-header branch, which leaves a struct a struct.
VariantBranchKeepsStruct(b, line) ==
    LET layout == CloseVariant(Unwrap(b.current_layout), b.current_variant) IN
    IF ~ParsesU64(line.size) THEN Panic(b)
    ELSE [b EXCEPT
            !.current_variant = Some(Variant(TrimTicks(line.name), line.size, <<>>)),
            !.current_layout = Some(layout)]

\* A faulty variant-header branch, which forgets the variant that was open.
VariantBranchForgetsOpen(b, line) ==
    LET layout == Unwrap(b.current_layout) IN
    IF ~ParsesU64(line.size) THEN Panic(b)
    ELSE [b EXCEPT
            !.current_variant = Some(Variant(TrimTicks(line.name), line.size, <<>>)),
            !.current_layout =
                Some(IF layout.kind.tag = "Struct"
                     THEN [layout EXCEPT !.kind = KindEnum(0, <<>>)]
                     ELSE layout)]

\* Lines 78-96: a variant header.
VariantBranch(b, line) ==
    LET layout == CloseVariant(Unwrap(b.current_layout), b.current_variant) IN
    IF ~ParsesU64(line.size) THEN Panic(b)
    ELSE [b EXCEPT
            !.current_variant = Some(Variant(TrimTicks(line.name), line.size, <<>>)),
            !.current_layout =
                Some(IF layout.kind.tag = "Struct"
                     THEN [layout EXCEPT !.kind = KindEnum(0, <<>>)]
                     ELSE layout)]

\* A faulty discriminant branch, which starts the enum afresh every time.
DiscriminantBranchResets(b, line) ==
    LET layout == Unwrap(b.current_layout) IN
    IF ~ParsesU64(line.size) THEN Panic(b)
    ELSE [b EXCEPT !.current_layout =
              Some([layout EXCEPT !.kind = KindEnum(line.size, <<>>)])]

\* Lines 97-109: a discriminant.
DiscriminantBranch(b, line) ==
    LET layout == Unwrap(b.current_layout) IN
    IF ~ParsesU64(line.size) THEN Panic(b)
    ELSE [b EXCEPT !.current_layout =
              Some(IF layout.kind.tag = "Enum"
                   THEN [layout EXCEPT !.kind.discriminant_size = line.size]
                   ELSE [layout EXCEPT !.kind = KindEnum(line.size, <<>>)])]

\* if let Some(variant) = current_variant.as_mut() { variant.entries.push(entry) }
PushToVariant(b, entry) ==
    IF IsSome(b.current_variant)
    THEN [b EXCEPT !.current_variant =
              Some([Unwrap(b.current_variant) EXCEPT !.entries = Append(@, entry)])]
    ELSE b

\* if let TypeKind::Struct { entries } = &mut layout.kind { entries.push(entry) }
PushToStruct(b, entry) ==
    LET layout == Unwrap(b.current_layout) IN
    IF layout.kind.tag = "Struct"
    THEN [b EXCEPT !.current_layout =
              Some([layout EXCEPT !.kind.entries = Append(@, entry)])]
    ELSE b

\* The routing of a field and of a padding: the open variant, else the struct.
PushToVariantOrStruct(b, entry) ==
    IF IsSome(b.current_variant) THEN PushToVariant(b, entry)
    ELSE PushToStruct(b, entry)

\* A faulty closure-capture branch, which routes the entry as a field is routed.
UpvarBranchAsField(b, line) ==
    IF ~ParsesAll(line) THEN Panic(b)
    ELSE PushToVariantOrStruct(b, EntryUpvar(ClosureVar(line.name, line.size,
                                                        line.offset, line.alignment,
                                                        None)))

\* Lines 110-121: a closure capture.
UpvarBranch(b, line) ==
    IF ~ParsesAll(line) THEN Panic(b)
    ELSE PushToVariant(b, EntryUpvar(ClosureVar(line.name, line.size, line.offset,
                                                line.alignment, None)))

\* Lines 122-133: a closure local.
LocalBranch(b, line) ==
    IF ~ParsesU64(line.size) THEN Panic(b)
    ELSE PushToVariant(b, EntryLocal(ClosureVar(line.name, line.size, None, None,
                                                line.type_info)))

\* Lines 134-166: a field.
FieldBranch(b, line) ==
    IF ~ParsesAll(line) THEN Panic(b)
    ELSE PushToVariantOrStruct(b, EntryField(Field(line.name, line.size,
                                                   line.alignment, line.offset)))

\* Lines 167-176: a padding.
PaddingBranch(b, line) ==
    IF ~ParsesU64(line.size) THEN Panic(b)
    ELSE PushToVariantOrStruct(b, EntryPadding(line.size))

\* A faulty end-padding branch, which routes the entry as a padding is routed.
EndPaddingBranchAsPadding(b, line) ==
    IF ~ParsesU64(line.size) THEN Panic(b)
    ELSE PushToVariantOrStruct(b, EntryPadding(line.size))

\* Lines 177-185: an end padding.
EndPaddingBranch(b, line) ==
    IF ~ParsesU64(line.size) THEN Panic(b)
    ELSE PushToStruct(b, EntryPadding(line.size))

\* A faulty fallthrough, which also closes the open variant.
UnhandledBranchClosesVariant(b, line) ==
    IF ContainsMarker(line)
    THEN [b EXCEPT !.current_layout =
              Some([Unwrap(b.current_layout) EXCEPT !.unhandled_lines = Append(@, line)]),
                   !.current_variant = None]
    ELSE b

\* Lines 187-191: if !handled { if contains(marker) { unhandled_lines.push } }
UnhandledBranch(b, line) ==
    IF ContainsMarker(line)
    THEN [b EXCEPT !.current_layout =
              Some([Unwrap(b.current_layout) EXCEPT !.unhandled_lines = Append(@, line)])]
    ELSE b

\* Line 75: layout.raw_lines.push(original_line.clone())
PushRawLine(b, line) ==
    [b EXCEPT !.current_layout =
         Some([Unwrap(b.current_layout) EXCEPT !.raw_lines = Append(@, line)])]

\* Lines 77-191: the if / else-if chain over the shapes, in the code's order.
Dispatch(b, line) ==
    IF RE_VARIANT(line) THEN VariantBranch(b, line)
    ELSE IF RE_DISCRIMINANT(line) THEN DiscriminantBranch(b, line)
    ELSE IF RE_UPVAR(line) THEN UpvarBranch(b, line)
    ELSE IF RE_LOCAL(line) THEN LocalBranch(b, line)
    ELSE IF RE_FIELD(line) THEN FieldBranch(b, line)
    ELSE IF RE_PADDING(line) THEN PaddingBranch(b, line)
    ELSE IF RE_END_PADDING(line) THEN EndPaddingBranch(b, line)
    ELSE UnhandledBranch(b, line)

\* Lines 47-191: one iteration of the loop.
LoopBody(b, line) ==
    IF IsBlank(line) THEN b
    ELSE IF RE_TYPE(line) THEN TypeBranch(b, line)
    ELSE IF ~IsSome(b.current_layout) THEN b
    ELSE Dispatch(PushRawLine(b, line), line)

\* Lines 194-199: after the loop.
AfterLoop(b) == [FlushLayout(b) EXCEPT !.pc = "verifying"]

(***************************************************************************)
(* The input                                                               *)
(***************************************************************************)
Name(c) == <<c>>
\* A capture that begins and ends with a backtick of its own.
Ticked(c) == <<Tick, c, Tick>>

BlankLine == Line("blank", <<>>, 0, None, None, None)
PlainLine == Line("plain", Name("Compiling"), 0, None, None, None)
OtherLine == Line("other", Name("print-type-size note"), 0, None, None, None)

TypeLines ==
    {Line("type", Name("A"), 0, Some(1), None, None),
     Line("type", Name("A"), 1, Some(1), None, None),
     Line("type", Name("B"), 1, Some(1), None, None)}
VariantLines ==
    {Line("variant", Ticked("A"), 1, None, None, None),
     Line("variant", Name("B"), U64Max, None, None, None)}
DiscriminantLines == {Line("discriminant", <<>>, 1, None, None, None)}
UpvarLines == {Line("upvar", Name("u"), 1, Some(1), Some(0), None)}
LocalLines == {Line("local", Name("l"), 1, None, None, Some("T"))}
FieldLines == {Line("field", Name(".x"), 1, None, Some(0), None)}
PaddingLines == {Line("padding", <<>>, U64Max, None, None, None)}
EndPaddingLines == {Line("end_padding", <<>>, 1, None, None, None)}
\* Lines whose size is a digit string beyond u64::MAX.
TooBigLines == {Line("padding", <<>>, TooBig, None, None, None)}

Lines ==
    {BlankLine, PlainLine, OtherLine} \cup TypeLines \cup VariantLines
    \cup DiscriminantLines \cup UpvarLines \cup LocalLines \cup FieldLines
    \cup PaddingLines \cup EndPaddingLines \cup TooBigLines

\* `blocks` after `line` is read.
Record(bs, line) ==
    IF RE_TYPE(line) THEN Append(bs, <<line>>)
    ELSE IF bs = <<>> THEN bs
    ELSE [bs EXCEPT ![Len(bs)] = Append(@, line)]

RECURSIVE NLines(_)
NLines(bs) == IF bs = <<>> THEN 0 ELSE Len(Head(bs)) + NLines(Tail(bs))

(***************************************************************************)
(* The program: main reads the layouts, then verifies each                 *)
(***************************************************************************)
Init ==
    /\ pc = "reading"
    /\ overflow_checks \in BOOLEAN
    /\ blocks = <<>>
    /\ layouts = <<>>
    /\ current_layout = None
    /\ current_variant = None
    /\ outcomes = <<>>

\* reader.lines() yields `line` and the loop body runs on it.
ReadLine(line) ==
    /\ pc = "reading"
    /\ NLines(blocks) < MaxLines
    /\ blocks' = Record(blocks, line)
    /\ LET b == LoopBody(Builder, line) IN
        /\ pc' = b.pc
        /\ layouts' = b.layouts
        /\ current_layout' = b.current_layout
        /\ current_variant' = b.current_variant
    /\ UNCHANGED <<overflow_checks, outcomes>>

\* Lines 48-50.
ReadBlank == \E line \in Lines : IsBlank(line) /\ ReadLine(line)

\* Lines 52-68.
ReadTypeHeader == \E line \in Lines : RE_TYPE(line) /\ ReadLine(line)

\* Lines 70-73: no layout is open.
ReadOutsideLayout ==
    \E line \in Lines :
        /\ ~IsBlank(line) /\ ~RE_TYPE(line) /\ ~IsSome(current_layout)
        /\ ReadLine(line)

\* Lines 75-191, by the branch the line takes.
ReadVariant ==
    \E line \in Lines : RE_VARIANT(line) /\ IsSome(current_layout) /\ ReadLine(line)

ReadDiscriminant ==
    \E line \in Lines : RE_DISCRIMINANT(line) /\ IsSome(current_layout) /\ ReadLine(line)

ReadUpvar ==
    \E line \in Lines : RE_UPVAR(line) /\ IsSome(current_layout) /\ ReadLine(line)

ReadLocal ==
    \E line \in Lines : RE_LOCAL(line) /\ IsSome(current_layout) /\ ReadLine(line)

ReadField ==
    \E line \in Lines : RE_FIELD(line) /\ IsSome(current_layout) /\ ReadLine(line)

ReadPadding ==
    \E line \in Lines : RE_PADDING(line) /\ IsSome(current_layout) /\ ReadLine(line)

ReadEndPadding ==
    \E line \in Lines : RE_END_PADDING(line) /\ IsSome(current_layout) /\ ReadLine(line)

ReadUnhandled ==
    \E line \in Lines :
        /\ line.shape = "other" /\ IsSome(current_layout)
        /\ ReadLine(line)

ReadPlain ==
    \E line \in Lines :
        /\ line.shape = "plain" /\ IsSome(current_layout)
        /\ ReadLine(line)

\* reader.lines() is exhausted: parse_layouts returns.
EndOfInput ==
    /\ pc = "reading"
    /\ LET b == AfterLoop(Builder) IN
        /\ pc' = b.pc
        /\ layouts' = b.layouts
        /\ current_layout' = b.current_layout
        /\ current_variant' = b.current_variant
    /\ UNCHANGED <<overflow_checks, blocks, outcomes>>

\* main.rs, lines 14-37: one iteration of the loop over the layouts.
VerifyLayout ==
    /\ pc = "verifying"
    /\ Len(outcomes) < Len(layouts)
    /\ LET r == verify(layouts[Len(outcomes) + 1], overflow_checks) IN
        IF r = Overflowed
        THEN pc' = "panicked" /\ UNCHANGED outcomes
        ELSE pc' = pc /\ outcomes' = Append(outcomes, r)
    /\ UNCHANGED <<overflow_checks, blocks, layouts, current_layout, current_variant>>

Next ==
    \/ ReadBlank
    \/ ReadTypeHeader
    \/ ReadOutsideLayout
    \/ ReadVariant
    \/ ReadDiscriminant
    \/ ReadUpvar
    \/ ReadLocal
    \/ ReadField
    \/ ReadPadding
    \/ ReadEndPadding
    \/ ReadUnhandled
    \/ ReadPlain
    \/ EndOfInput
    \/ VerifyLayout

Spec == Init /\ [][Next]_vars

(***************************************************************************)
(* verify on its own: TypeLayout is a public type with public fields, and  *)
(* verify takes any value of it                                            *)
(***************************************************************************)
SizesU64 == 0..U64Max

TestField(s) == Field(Name(".f"), s, None, None)
TestClosureVar(s) == ClosureVar(Name("c"), s, None, None, None)

TestEntries ==
    {EntryField(TestField(s)) : s \in SizesU64}
    \cup {EntryUpvar(TestClosureVar(s)) : s \in SizesU64}
    \cup {EntryLocal(TestClosureVar(s)) : s \in SizesU64}
    \cup {EntryPadding(s) : s \in SizesU64}

SeqsUpTo2(S) == {<<>>} \cup {<<x>> : x \in S} \cup {<<x, y>> : x \in S, y \in S}

TestStructs ==
    {TypeLayout(Name("S"), size, 1, KindStruct(entries), <<>>, <<>>) :
        size \in SizesU64, entries \in SeqsUpTo2(TestEntries)}

\* The entry lists of the variants: none, one entry, a field and a closure entry.
TestVariantEntries ==
    {<<>>}
    \cup {<<EntryPadding(a)>> : a \in SizesU64}
    \cup {<<EntryField(TestField(a)), EntryUpvar(TestClosureVar(b))>> :
            a \in SizesU64, b \in {1, U64Max}}

TestVariants(name) ==
    {Variant(Name(name), size, entries) :
        size \in SizesU64, entries \in TestVariantEntries}

TestVariantLists ==
    {<<>>}
    \cup {<<v>> : v \in TestVariants("V")}
    \cup {<<v, w>> : v \in TestVariants("V"), w \in TestVariants("W")}

TestEnums ==
    {TypeLayout(Name("E"), size, 1, KindEnum(discriminant_size, variants), <<>>, <<>>) :
        size \in SizesU64, discriminant_size \in SizesU64,
        variants \in TestVariantLists}

TestUnions ==
    {TypeLayout(Name("U"), size, 1, KindUnion(fields), <<>>, <<>>) :
        size \in SizesU64,
        fields \in SeqsUpTo2({TestField(s) : s \in SizesU64})}

TestLayouts == TestStructs \cup TestEnums \cup TestUnions

\* main's loop over one layout, whatever it is.
InitVerify ==
    /\ pc = "verifying"
    /\ overflow_checks \in BOOLEAN
    /\ blocks = <<>>
    /\ layouts \in {<<layout>> : layout \in TestLayouts}
    /\ current_layout = None
    /\ current_variant = None
    /\ outcomes = <<>>

NextVerify == VerifyLayout

SpecVerify == InitVerify /\ [][NextVerify]_vars

(***************************************************************************)
(* parse_layouts.rs: parse_layouts as a function of its whole input        *)
(***************************************************************************)
\* Lines 20-22: the locals as parse_layouts starts.
EmptyBuilder ==
    [pc |-> "reading", layouts |-> <<>>, current_layout |-> None,
     current_variant |-> None]

\* The loop over reader.lines(), from the builder b.
RECURSIVE RunLoop(_, _)
RunLoop(b, lines) ==
    IF lines = <<>> \/ b.pc = "panicked" THEN b
    ELSE RunLoop(LoopBody(b, Head(lines)), Tail(lines))

\* parse_layouts(reader): the builder as it returns (or as it aborts).
parse_layouts(lines) ==
    LET b == RunLoop(EmptyBuilder, lines) IN
    IF b.pc = "panicked" THEN b ELSE AfterLoop(b)

(***************************************************************************)
(* The vocabulary of the claims: sizes as mathematical integers            *)
(***************************************************************************)
SizeOfEntry(e) == IF e.tag = "Padding" THEN e.size ELSE e.val.size

\* The sum of the sizes of the entries, as an integer (no width).
RECURSIVE ExactSum(_)
ExactSum(entries) ==
    IF entries = <<>> THEN 0 ELSE SizeOfEntry(Head(entries)) + ExactSum(Tail(entries))

\* The largest `size` among the records of xs, 0 when there is none.
LargestSize(xs) ==
    IF xs = <<>> THEN 0
    ELSE LET sizes == {xs[i].size : i \in 1..Len(xs)} IN
         CHOOSE m \in sizes : \A n \in sizes : n <= m

\* The per-variant check, as the specification words it.
VariantPasses(v, discriminant_size) ==
    \/ ExactSum(v.entries) = v.size
    \/ discriminant_size > 0 /\ ExactSum(v.entries) = v.size + discriminant_size

\* The variants of an enum that fail the per-variant check, by position.
FailingVariants(layout) ==
    {j \in 1..Len(layout.kind.variants) :
        ~VariantPasses(layout.kind.variants[j], layout.kind.discriminant_size)}

FirstOf(S) == CHOOSE j \in S : \A k \in S : j <= k

\* The layouts main has verified so far.
Verified == 1..Len(outcomes)

(***************************************************************************)
(* C1.  A struct verifies when, and only when, the sum of the sizes of     *)
(* all its entries is its declared size; otherwise the verdict is          *)
(* StructSizeMismatch with expected = the declared size and actual = that  *)
(* sum.                                                                    *)
(* The code adds in u64: a sum beyond u64::MAX wraps (overflow checks off) *)
(* and can then equal the declared size, so the statement is refuted.      *)
(***************************************************************************)
C1_StructVerdict ==
    \A i \in Verified :
        layouts[i].kind.tag = "Struct" =>
            outcomes[i] =
                IF ExactSum(layouts[i].kind.entries) = layouts[i].size THEN Ok
                ELSE StructSizeMismatch(layouts[i].size,
                                        ExactSum(layouts[i].kind.entries))

(***************************************************************************)
(* C2.  An enum all of whose variants pass the per-variant check verifies  *)
(* when, and only when, its declared size is at least discriminant_size +  *)
(* max_variant_size or equals max(discriminant_size, max_variant_size);    *)
(* otherwise the verdict is EnumTotalSizeMismatch with expected = the      *)
(* declared size and calculated_min = discriminant_size +                  *)
(* max_variant_size.                                                       *)
(* The code forms discriminant_size + max_variant_size in u64: beyond      *)
(* u64::MAX it wraps and every declared size is "at least" it.             *)
(***************************************************************************)
C2_EnumTotalVerdict ==
    \A i \in Verified :
        (layouts[i].kind.tag = "Enum" /\ FailingVariants(layouts[i]) = {}) =>
            LET size == layouts[i].size
                discriminant_size == layouts[i].kind.discriminant_size
                max_variant_size == LargestSize(layouts[i].kind.variants)
                additive == discriminant_size + max_variant_size
                niche == IF discriminant_size >= max_variant_size
                         THEN discriminant_size ELSE max_variant_size
            IN  outcomes[i] =
                    IF size >= additive \/ size = niche THEN Ok
                    ELSE EnumTotalSizeMismatch(size, additive)

(***************************************************************************)
(* C3.  A variant passes the per-variant check when, and only when, the    *)
(* sum of its entries is its declared size, or discriminant_size > 0 and   *)
(* the sum is declared size + discriminant_size.  When a variant fails,    *)
(* the verdict is VariantSizeMismatch for the first failing variant, with  *)
(* expected = its declared size and actual = its sum, whatever the total   *)
(* size; when none fails, the verdict is no VariantSizeMismatch.           *)
(* The code forms both sums in u64, so a wrapped sum lets a failing        *)
(* variant pass.                                                           *)
(***************************************************************************)
C3_VariantVerdict ==
    \A i \in Verified :
        layouts[i].kind.tag = "Enum" =>
            LET failing == FailingVariants(layouts[i]) IN
            IF failing = {} THEN outcomes[i].tag # "VariantSizeMismatch"
            ELSE LET v == layouts[i].kind.variants[FirstOf(failing)] IN
                 outcomes[i] = VariantSizeMismatch(v.name, v.size, ExactSum(v.entries))

(***************************************************************************)
(* C4.  A union verifies when, and only when, its declared size is the     *)
(* largest size among its fields (0 without fields); otherwise the verdict *)
(* is UnionSizeMismatch with expected = the declared size and actual_max = *)
(* that largest size.  The sum of the field sizes plays no part.           *)
(***************************************************************************)
C4_UnionVerdict ==
    \A i \in Verified :
        layouts[i].kind.tag = "Union" =>
            outcomes[i] =
                IF layouts[i].size = LargestSize(layouts[i].kind.fields) THEN Ok
                ELSE UnionSizeMismatch(layouts[i].size,
                                       LargestSize(layouts[i].kind.fields))

\* A union of two fields was accepted though its size is not their sum, and
\* the same fields would have failed a struct.
C4_Witness ==
    \E i \in Verified :
        /\ layouts[i].kind.tag = "Union"
        /\ Len(layouts[i].kind.fields) = 2
        /\ layouts[i].kind.fields[1].size + layouts[i].kind.fields[2].size
               # layouts[i].size
        /\ layouts[i].kind.fields[1].size > layouts[i].kind.fields[2].size
        /\ outcomes[i] = Ok

(***************************************************************************)
(* The vocabulary of the claims: steps                                     *)
(***************************************************************************)
\* This step reads `line` into a block (a line before the first type
\* header joins no block, and the step that reads it changes nothing).
Reads(line) ==
    /\ pc = "reading"
    /\ blocks' # blocks
    /\ blocks' = Record(blocks, line)

\* This step finalizes the open layout and appends it to `layouts`.
Finalizes ==
    /\ pc = "reading"
    /\ IsSome(current_layout)
    /\ Len(layouts') = Len(layouts) + 1

IsPrefix(s, t) == Len(s) <= Len(t) /\ SubSeq(t, 1, Len(s)) = s

\* The Field entries of a list, unwrapped, in order.
RECURSIVE OnlyFields(_)
OnlyFields(entries) ==
    IF entries = <<>> THEN <<>>
    ELSE IF Head(entries).tag = "Field"
         THEN <<Head(entries).val>> \o OnlyFields(Tail(entries))
         ELSE OnlyFields(Tail(entries))

(***************************************************************************)
(* C5.  Finalization turns a layout into a union when, and only when,      *)
(* with the still-open variant closed into it, it is an enum of exactly    *)
(* one variant whose name is the layout's name; the union's fields are     *)
(* then that variant's Field entries in order, every other entry dropped.  *)
(* In every other case finalization leaves the kind and its contents as    *)
(* they are.  Name, size, alignment and the recorded lines never change.   *)
(***************************************************************************)
C5_Reclassification ==
    [][Finalizes =>
        LET open == Unwrap(current_layout)
            closed == IF open.kind.tag = "Enum" /\ IsSome(current_variant)
                      THEN [open EXCEPT !.kind.variants =
                                Append(@, Unwrap(current_variant))]
                      ELSE open
            final == layouts'[Len(layouts')]
            to_union == /\ closed.kind.tag = "Enum"
                        /\ Len(closed.kind.variants) = 1
                        /\ closed.kind.variants[1].name = closed.name
        IN  /\ final.kind.tag = "Union" <=> to_union
            /\ to_union =>
                  final.kind = KindUnion(OnlyFields(closed.kind.variants[1].entries))
            /\ ~to_union => final.kind = closed.kind
            /\ final = [closed EXCEPT !.kind = final.kind]
    ]_vars

\* A layout became a union of one field, and its variant held another
\* entry, which was dropped.
C5_Witness ==
    \E i \in 1..Len(layouts) :
        /\ layouts[i].kind.tag = "Union"
        /\ Len(layouts[i].kind.fields) = 1
        /\ Len(blocks[i]) = 4
        /\ \E k \in 3..4 : blocks[i][k].shape \in {"padding", "upvar", "local"}

(***************************************************************************)
(* C6.  parse_layouts returns one layout per type header, in the order of  *)
(* the headers, each with the name, size and alignment of its header; a    *)
(* layout is finalized and appended exactly when the next type header is   *)
(* read or the input ends, and a layout that was appended is never changed *)
(* or removed.  Without a type header no layout is produced.               *)
(***************************************************************************)
C6_HeadersAndLayouts ==
    /\ pc # "panicked" =>
          Len(layouts) + (IF IsSome(current_layout) THEN 1 ELSE 0) = Len(blocks)
    /\ pc = "verifying" => current_layout = None /\ Len(layouts) = Len(blocks)
    /\ \A i \in 1..Len(layouts) :
          /\ i <= Len(blocks)
          /\ layouts[i].name = blocks[i][1].name
          /\ layouts[i].size = blocks[i][1].size
          /\ layouts[i].alignment = Unwrap(blocks[i][1].alignment)
    /\ blocks = <<>> => layouts = <<>>

C6_AppendedOnce ==
    /\ IsPrefix(layouts, layouts')
    /\ Len(layouts') <= Len(layouts) + 1
    /\ Len(layouts') = Len(layouts) + 1 <=>
          /\ pc = "reading"
          /\ IsSome(current_layout)
          /\ Len(blocks') = Len(blocks) + 1 \/ pc' = "verifying"

C6_OneLayoutPerHeader == [](C6_HeadersAndLayouts) /\ [][C6_AppendedOnce]_vars

\* parse_layouts returned two layouts for two headers.
C6_Witness ==
    /\ pc = "verifying"
    /\ Len(blocks) = 2
    /\ Len(layouts) = 2
    /\ layouts[1].name # layouts[2].name

(***************************************************************************)
(* C7.  With a layout open, a line that holds the marker and has no        *)
(* recognized shape is appended to the layout's unhandled_lines (and, as   *)
(* every line of the layout, to its raw_lines) and changes nothing else:   *)
(* the kind and its entries, the open variant, the output sequence stay.   *)
(* unhandled_lines only grows, and finalization keeps it.                  *)
(***************************************************************************)
C7_UnhandledStep ==
    \A line \in Lines :
        (line.shape = "other" /\ IsSome(current_layout) /\ Reads(line)) =>
            /\ pc' = pc
            /\ layouts' = layouts
            /\ current_variant' = current_variant
            /\ current_layout' =
                   Some([Unwrap(current_layout) EXCEPT
                            !.unhandled_lines = Append(@, line),
                            !.raw_lines = Append(@, line)])

C7_OnlyGrows ==
    /\ \A i \in 1..Len(layouts) :
          i <= Len(layouts') /\ layouts'[i].unhandled_lines = layouts[i].unhandled_lines
    /\ IsSome(current_layout) =>
          IF Len(layouts') = Len(layouts) + 1
          THEN layouts'[Len(layouts')].unhandled_lines =
                   Unwrap(current_layout).unhandled_lines
          ELSE /\ IsSome(current_layout')
               /\ IsPrefix(Unwrap(current_layout).unhandled_lines,
                           Unwrap(current_layout').unhandled_lines)

C7_UnhandledLine == [][C7_UnhandledStep /\ C7_OnlyGrows]_vars

\* An unhandled line stood between a variant header and a field, and the
\* field went to that variant.
C7_Witness ==
    /\ IsSome(current_layout)
    /\ IsSome(current_variant)
    /\ LET layout == Unwrap(current_layout) IN
        /\ Len(layout.raw_lines) = 4
        /\ layout.raw_lines[2].shape = "variant"
        /\ layout.raw_lines[3].shape = "other"
        /\ layout.raw_lines[4].shape = "field"
        /\ layout.unhandled_lines = <<layout.raw_lines[3]>>
        /\ Len(Unwrap(current_variant).entries) = 1

(***************************************************************************)
(* C8.  A line that is not blank and does not hold the marker is recorded  *)
(* nowhere: reading it leaves the open layout (its raw_lines and           *)
(* unhandled_lines, its kind and entries), the open variant and the output *)
(* sequence as they were.                                                  *)
(* The code appends every line of an open layout to its raw_lines before   *)
(* it looks at the line, so the statement is refuted.                      *)
(***************************************************************************)
C8_PlainLineSkipped ==
    [][\A line \in Lines :
          (line.shape = "plain" /\ Reads(line)) =>
              UNCHANGED <<pc, layouts, current_layout, current_variant>>
    ]_vars

(***************************************************************************)
(* C9.  The record of a type header is a function of the lines from that   *)
(* header up to the next one (or the end of the input) and of nothing      *)
(* else: it is the record parse_layouts returns for those lines alone,     *)
(* whatever the lines before and after them.                               *)
(***************************************************************************)
C9_BlockIndependence ==
    pc # "panicked" =>
        \A i \in 1..Len(layouts) :
            LET alone == parse_layouts(blocks[i]) IN
            /\ alone.pc = "verifying"
            /\ alone.layouts = <<layouts[i]>>

\* Two layouts were returned; the first ended with a variant open and the
\* second has entries of its own.
C9_Witness ==
    /\ pc = "verifying"
    /\ Len(layouts) = 2
    /\ blocks[1][Len(blocks[1])].shape = "variant"
    /\ layouts[2].kind.tag = "Struct"
    /\ layouts[2].kind.entries # <<>>

(***************************************************************************)
(* C10.  An input that is one well-formed type header and nothing after it *)
(* yields one layout: a struct without entries and without unhandled       *)
(* lines, with the name, size and alignment of the header.  verify accepts *)
(* it when, and only when, its declared size is 0, and otherwise answers   *)
(* StructSizeMismatch with actual = 0.                                     *)
(***************************************************************************)
C10_HeaderOnly ==
    \A h \in Lines :
        (RE_TYPE(h) /\ ParsesAll(h) /\ blocks = <<<<h>>>> /\ pc # "reading") =>
            /\ pc = "verifying"
            /\ layouts = <<TypeLayout(h.name, h.size, Unwrap(h.alignment),
                                      KindStruct(<<>>), <<>>, <<h>>)>>
            /\ outcomes # <<>> =>
                  outcomes = <<IF h.size = 0 THEN Ok
                               ELSE StructSizeMismatch(h.size, 0)>>

\* A lone header of a size other than 0 was parsed and rejected.
C10_Witness ==
    /\ Len(blocks) = 1
    /\ Len(blocks[1]) = 1
    /\ Len(outcomes) = 1
    /\ outcomes[1].tag = "StructSizeMismatch"

(***************************************************************************)
(* The vocabulary of the claims: lines and the entries they stand for      *)
(***************************************************************************)
\* The open layout, with `line` recorded in its raw_lines and nothing else
\* changed.
OpenWithRaw(line) ==
    [Unwrap(current_layout) EXCEPT !.raw_lines = Append(@, line)]

\* The entry a field, padding, end padding, upvar or local line stands for.
EntryOfLine(line) ==
    CASE line.shape = "field" ->
            [tag |-> "Field",
             val |-> [name |-> line.name, size |-> line.size,
                      alignment |-> line.alignment, offset |-> line.offset]]
      [] line.shape \in {"padding", "end_padding"} ->
            [tag |-> "Padding", size |-> line.size]
      [] line.shape = "upvar" ->
            [tag |-> "Upvar",
             val |-> [name |-> line.name, size |-> line.size, offset |-> line.offset,
                      alignment |-> line.alignment, type_info |-> None]]
      [] line.shape = "local" ->
            [tag |-> "Local",
             val |-> [name |-> line.name, size |-> line.size, offset |-> None,
                      alignment |-> None, type_info |-> line.type_info]]

\* `line` is read with a layout open, and every numeral of it fits in u64.
ReadsInLayout(line) ==
    /\ IsSome(current_layout)
    /\ ParsesAll(line)
    /\ Reads(line)

(***************************************************************************)
(* C11.  A field line or a padding line read while a layout is open adds   *)
(* its entry to exactly one list: the open variant's entries when a        *)
(* variant is open, the layout's Struct entries otherwise; and a layout is *)
(* never a Union while it is open.                                         *)
(* The code has a third case: an enum without an open variant (a           *)
(* discriminant line came before any variant header), where the entry is   *)
(* added nowhere, so the statement is refuted.                             *)
(***************************************************************************)
C11_FieldAndPaddingStep ==
    \A line \in Lines :
        (line.shape \in {"field", "padding"} /\ ReadsInLayout(line)) =>
            /\ pc' = pc
            /\ layouts' = layouts
            /\ IF IsSome(current_variant)
               THEN /\ current_variant' =
                          Some([Unwrap(current_variant) EXCEPT
                                   !.entries = Append(@, EntryOfLine(line))])
                    /\ current_layout' = Some(OpenWithRaw(line))
               ELSE /\ current_variant' = None
                    /\ Unwrap(current_layout).kind.tag = "Struct"
                    /\ current_layout' =
                          Some([OpenWithRaw(line) EXCEPT
                                   !.kind.entries = Append(@, EntryOfLine(line))])

C11_NoOpenUnion ==
    IsSome(current_layout) => Unwrap(current_layout).kind.tag # "Union"

C11_FieldAndPaddingRouted ==
    [](C11_NoOpenUnion) /\ [][C11_FieldAndPaddingStep]_vars

(***************************************************************************)
(* C12.  A finalized layout that is still an Enum has one variant per      *)
(* variant header of its block, in the order of the headers, each with the *)
(* name and size of its header and with the entries of the field, padding, *)
(* upvar and local lines between its header and the next variant header    *)
(* (or the end of the block), in order.  No line gives an entry to two     *)
(* lists: a finalized layout holds at most one entry per entry line.       *)
(***************************************************************************)
\* The variants the lines of a block describe, `acc` being those of the
\* lines already passed.
RECURSIVE VariantsFrom(_, _)
VariantsFrom(lines, acc) ==
    IF lines = <<>> THEN acc
    ELSE LET line == Head(lines)
             n == Len(acc) IN
         VariantsFrom(Tail(lines),
            IF line.shape = "variant"
            THEN Append(acc, [name |-> TrimTicks(line.name), size |-> line.size,
                              entries |-> <<>>])
            ELSE IF line.shape \in {"field", "padding", "upvar", "local"} /\ n > 0
            THEN [acc EXCEPT ![n].entries = Append(@, EntryOfLine(line))]
            ELSE acc)

\* The number of entries a finalized layout holds, over all its lists.
RECURSIVE CountInVariants(_)
CountInVariants(variants) ==
    IF variants = <<>> THEN 0
    ELSE Len(Head(variants).entries) + CountInVariants(Tail(variants))

EntryCount(layout) ==
    CASE layout.kind.tag = "Struct" -> Len(layout.kind.entries)
      [] layout.kind.tag = "Enum" -> CountInVariants(layout.kind.variants)
      [] layout.kind.tag = "Union" -> Len(layout.kind.fields)

IsEntryLine(line) ==
    line.shape \in {"field", "padding", "end_padding", "upvar", "local"}

\* C12: the variants of a finalized enum are those its block describes, and
\* a finalized layout holds at most one entry per entry line of its block.
C12_VariantsOfEnum ==
    \A i \in 1..Len(layouts) :
        /\ layouts[i].kind.tag = "Enum" =>
              layouts[i].kind.variants = VariantsFrom(Tail(blocks[i]), <<>>)
        /\ EntryCount(layouts[i]) <= Len(SelectSeq(blocks[i], IsEntryLine))

\* An enum of two variants was finalized, the first with an entry.
C12_Witness ==
    \E i \in 1..Len(layouts) :
        /\ layouts[i].kind.tag = "Enum"
        /\ Len(layouts[i].kind.variants) = 2
        /\ layouts[i].kind.variants[1].entries # <<>>
        /\ layouts[i].kind.variants[1].name # layouts[i].kind.variants[2].name

(***************************************************************************)
(* C13.  The kind of a layout moves only forward, Struct -> Enum -> Union. *)
(* A layout is opened as a Struct without entries.  It becomes an Enum     *)
(* only on a variant header (discriminant_size 0, no variants) or on a     *)
(* discriminant line; an Enum never becomes a Struct again; a layout is a  *)
(* Union only once finalized.  A discriminant line of size d leaves an     *)
(* Enum of discriminant_size d and, if the layout was an Enum already,     *)
(* leaves its variants and the open variant as they were.                  *)
(***************************************************************************)
C13_OpenKind ==
    IsSome(current_layout) => Unwrap(current_layout).kind.tag \in {"Struct", "Enum"}

\* This step keeps the open layout open.
SameLayoutStep ==
    /\ IsSome(current_layout)
    /\ IsSome(current_layout')
    /\ Len(blocks') = Len(blocks)

C13_KindStep ==
    /\ (pc = "reading" /\ pc' = "reading" /\ Len(blocks') = Len(blocks) + 1) =>
          /\ IsSome(current_layout')
          /\ Unwrap(current_layout').kind = [tag |-> "Struct", entries |-> <<>>]
    /\ SameLayoutStep =>
          LET kind == Unwrap(current_layout).kind
              kind2 == Unwrap(current_layout').kind
          IN  /\ kind.tag = "Enum" => kind2.tag = "Enum"
              /\ (kind.tag = "Struct" /\ kind2.tag = "Enum") =>
                    \E line \in Lines :
                        /\ Reads(line)
                        /\ \/ /\ line.shape = "variant"
                              /\ kind2 = [tag |-> "Enum", discriminant_size |-> 0,
                                          variants |-> <<>>]
                           \/ /\ line.shape = "discriminant"
                              /\ kind2 = [tag |-> "Enum",
                                          discriminant_size |-> line.size,
                                          variants |-> <<>>]
    /\ Finalizes =>
          LET kind == Unwrap(current_layout).kind
              final == layouts'[Len(layouts')].kind
          IN  /\ kind.tag = "Struct" => final = kind
              /\ kind.tag = "Enum" => final.tag \in {"Enum", "Union"}
    /\ \A line \in Lines :
          (line.shape = "discriminant" /\ ReadsInLayout(line)) =>
              LET kind == Unwrap(current_layout).kind
                  kind2 == Unwrap(current_layout').kind
              IN  /\ kind2.tag = "Enum"
                  /\ kind2.discriminant_size = line.size
                  /\ kind2.variants = IF kind.tag = "Enum" THEN kind.variants ELSE <<>>
                  /\ current_variant' = current_variant

\* C13: the kind of a layout moves only forward, and a discriminant line
\* sets discriminant_size and nothing else of an enum.
C13_KindMovesForward == [](C13_OpenKind) /\ [][C13_KindStep]_vars

\* A discriminant line was read by an enum that had a closed variant and an
\* open one.
C13_Witness ==
    /\ IsSome(current_layout)
    /\ IsSome(current_variant)
    /\ LET layout == Unwrap(current_layout) IN
        /\ layout.kind.tag = "Enum"
        /\ Len(layout.kind.variants) = 1
        /\ layout.kind.discriminant_size = 1
        /\ layout.raw_lines[Len(layout.raw_lines)].shape = "discriminant"

(***************************************************************************)
(* C14.  An end-padding line read while a layout is open gives no variant  *)
(* an entry, open or not: it appends one Padding entry to the layout's     *)
(* Struct entries when the layout is a Struct, and otherwise leaves the    *)
(* kind, the variants and the open variant as they were.  It is not        *)
(* recorded in unhandled_lines (it is in raw_lines, as every line is).     *)
(***************************************************************************)
C14_EndPaddingStep ==
    \A line \in Lines :
        (line.shape = "end_padding" /\ ReadsInLayout(line)) =>
            /\ pc' = pc
            /\ layouts' = layouts
            /\ current_variant' = current_variant
            /\ current_layout' =
                  Some(IF Unwrap(current_layout).kind.tag = "Struct"
                       THEN [OpenWithRaw(line) EXCEPT
                                !.kind.entries =
                                    Append(@, [tag |-> "Padding", size |-> line.size])]
                       ELSE OpenWithRaw(line))

\* C14: an end-padding line appends a Padding entry to a Struct's entries
\* and changes nothing of an Enum or of the open variant.
C14_EndPadding == [][C14_EndPaddingStep]_vars

\* An end-padding line was read with a variant open, and the variant has no
\* entry.
C14_Witness ==
    /\ IsSome(current_layout)
    /\ IsSome(current_variant)
    /\ Unwrap(current_variant).entries = <<>>
    /\ LET layout == Unwrap(current_layout) IN
        /\ layout.raw_lines[Len(layout.raw_lines)].shape = "end_padding"
        /\ layout.raw_lines[Len(layout.raw_lines) - 1].shape = "variant"
        /\ layout.unhandled_lines = <<>>

(***************************************************************************)
(* C15.  An upvar or local line read while a layout is open appends one    *)
(* Upvar / Local entry to the open variant when a variant is open.  When   *)
(* no variant is open it adds no entry anywhere, the Struct entries        *)
(* included, leaves the kind as it was, and is not recorded in             *)
(* unhandled_lines (it is in raw_lines, as every line is).                 *)
(***************************************************************************)
C15_ClosureStep ==
    \A line \in Lines :
        (line.shape \in {"upvar", "local"} /\ ReadsInLayout(line)) =>
            /\ pc' = pc
            /\ layouts' = layouts
            /\ current_layout' = Some(OpenWithRaw(line))
            /\ current_variant' =
                  IF IsSome(current_variant)
                  THEN Some([Unwrap(current_variant) EXCEPT
                                !.entries = Append(@, EntryOfLine(line))])
                  ELSE None

\* C15: an upvar or local line gives its entry to the open variant, and to
\* nothing when no variant is open.
C15_ClosureLines == [][C15_ClosureStep]_vars

\* A local line was read by a struct and left no entry; an upvar line read
\* after a variant header is the variant's only entry.
C15_Witness ==
    /\ IsSome(current_layout)
    /\ IsSome(current_variant)
    /\ LET layout == Unwrap(current_layout)
           variant == Unwrap(current_variant) IN
        /\ Len(layout.raw_lines) = 4
        /\ layout.raw_lines[2].shape = "local"
        /\ layout.raw_lines[3].shape = "variant"
        /\ layout.raw_lines[4].shape = "upvar"
        /\ layout.unhandled_lines = <<>>
        /\ Len(variant.entries) = 1
        /\ variant.entries[1].tag = "Upvar"

(***************************************************************************)
(* C16.  verify is total and exact: on every layout whose sizes are u64    *)
(* values it returns success or one defect, never aborts, and every sum    *)
(* it forms is the mathematical sum, so that its verdict is the verdict    *)
(* computed with unbounded integers.                                       *)
(* The code sums in u64: with overflow checks a sum beyond u64::MAX aborts *)
(* the process, without them it wraps, so the statement is refuted.        *)
(***************************************************************************)
\* The verdict on a layout, every sum taken in the integers.
ExactVerdict(layout) ==
    CASE layout.kind.tag = "Struct" ->
            IF ExactSum(layout.kind.entries) = layout.size THEN Ok
            ELSE StructSizeMismatch(layout.size, ExactSum(layout.kind.entries))
      [] layout.kind.tag = "Enum" ->
            LET failing == FailingVariants(layout)
                additive == layout.kind.discriminant_size
                                + LargestSize(layout.kind.variants)
                niche == IF layout.kind.discriminant_size
                               >= LargestSize(layout.kind.variants)
                         THEN layout.kind.discriminant_size
                         ELSE LargestSize(layout.kind.variants)
            IN  IF failing # {}
                THEN LET v == layout.kind.variants[FirstOf(failing)] IN
                     VariantSizeMismatch(v.name, v.size, ExactSum(v.entries))
                ELSE IF layout.size >= additive \/ layout.size = niche THEN Ok
                ELSE EnumTotalSizeMismatch(layout.size, additive)
      [] layout.kind.tag = "Union" ->
            IF layout.size = LargestSize(layout.kind.fields) THEN Ok
            ELSE UnionSizeMismatch(layout.size, LargestSize(layout.kind.fields))

\* C16: verify never aborts, and its verdict is the one exact sums give.
C16_VerifyTotalAndExact ==
    /\ pc # "panicked"
    /\ \A i \in Verified : outcomes[i] = ExactVerdict(layouts[i])

(***************************************************************************)
(* C17.  Whenever a variant is open, a layout is open and it is an Enum;   *)
(* right after a type header is read no variant is open.  So a variant     *)
(* that is closed, by the next variant header or by finalization, always   *)
(* goes into the variant list of its layout (from where finalization may   *)
(* take it for the fields of a union), and a layout never receives the     *)
(* variant of an earlier one.                                              *)
(***************************************************************************)
C17_OpenVariantInEnum ==
    IsSome(current_variant) =>
        /\ IsSome(current_layout)
        /\ Unwrap(current_layout).kind.tag = "Enum"

C17_VariantStep ==
    /\ (pc = "reading" /\ Len(blocks') = Len(blocks) + 1) => current_variant' = None
    /\ \A line \in Lines :
          (line.shape = "variant" /\ IsSome(current_variant) /\ ReadsInLayout(line)) =>
              /\ IsSome(current_layout')
              /\ Unwrap(current_layout').kind.tag = "Enum"
              /\ Unwrap(current_layout').kind.variants =
                     Append(Unwrap(current_layout).kind.variants,
                            Unwrap(current_variant))
    /\ (Finalizes /\ IsSome(current_variant)) =>
          LET open == Unwrap(current_layout)
              variant == Unwrap(current_variant)
              final == layouts'[Len(layouts')]
          IN  \/ /\ final.kind.tag = "Enum"
                 /\ final.kind.variants = Append(open.kind.variants, variant)
              \/ /\ final.kind.tag = "Union"
                 /\ open.kind.variants = <<>>
                 /\ final.kind.fields = OnlyFields(variant.entries)

\* C17: an open variant belongs to an open Enum layout, a type header
\* leaves no variant open, and a closed variant is never discarded.
C17_OpenVariantInvariant ==
    [](C17_OpenVariantInEnum) /\ [][C17_VariantStep]_vars

\* A type header was read while a variant with an entry was open: the
\* variant is in the finalized enum and no variant is open.
C17_Witness ==
    /\ pc = "reading"
    /\ Len(blocks) = 2
    /\ Len(blocks[2]) = 1
    /\ current_variant = None
    /\ Len(layouts) = 1
    /\ layouts[1].kind.tag = "Enum"
    /\ Len(layouts[1].kind.variants) = 1
    /\ layouts[1].kind.variants[1].entries # <<>>

(***************************************************************************)
(* C18.  The first variant header or discriminant line of a layout turns   *)
(* it from Struct into Enum and discards the entries the Struct had.  The  *)
(* field, padding and end-padding lines before that line are in raw_lines  *)
(* and nowhere else of the finalized Enum or Union: the record, and so     *)
(* every size verify computes from it, is the record of the block without  *)
(* those lines.                                                            *)
(***************************************************************************)
IsPromotionLine(line) == line.shape \in {"variant", "discriminant"}

HasPromotion(block) == \E k \in 1..Len(block) : IsPromotionLine(block[k])

\* The block without the field, padding and end-padding lines that come
\* before its first variant header or discriminant line.
RECURSIVE StripEarly(_)
StripEarly(block) ==
    IF block = <<>> \/ IsPromotionLine(Head(block)) THEN block
    ELSE IF Head(block).shape \in {"field", "padding", "end_padding"}
         THEN StripEarly(Tail(block))
         ELSE <<Head(block)>> \o StripEarly(Tail(block))

IsNotBlank(line) == line.shape # "blank"

WithoutRaw(layout) == [layout EXCEPT !.raw_lines = <<>>]

C18_PromotionStep ==
    \A line \in Lines :
        (/\ IsPromotionLine(line)
         /\ ReadsInLayout(line)
         /\ Unwrap(current_layout).kind.tag = "Struct") =>
            /\ Unwrap(current_layout').kind =
                  [tag |-> "Enum",
                   discriminant_size |->
                       IF line.shape = "discriminant" THEN line.size ELSE 0,
                   variants |-> <<>>]
            /\ current_variant' =
                  IF line.shape = "variant"
                  THEN Some([name |-> TrimTicks(line.name), size |-> line.size,
                             entries |-> <<>>])
                  ELSE None

C18_EarlyEntriesGone ==
    \A i \in 1..Len(layouts) :
        HasPromotion(blocks[i]) =>
            LET without == parse_layouts(StripEarly(blocks[i])) IN
            /\ layouts[i].kind.tag \in {"Enum", "Union"}
            /\ layouts[i].raw_lines = SelectSeq(blocks[i], IsNotBlank)
            /\ without.pc = "verifying"
            /\ Len(without.layouts) = 1
            /\ WithoutRaw(layouts[i]) = WithoutRaw(without.layouts[1])
            /\ (i \in Verified /\ verify(without.layouts[1], overflow_checks) # Overflowed)
                  => outcomes[i] = verify(without.layouts[1], overflow_checks)

\* C18: promotion from Struct to Enum discards the Struct entries, and the
\* lines that gave them leave no trace in the finalized record but raw_lines.
C18_PromotionDiscards == [](C18_EarlyEntriesGone) /\ [][C18_PromotionStep]_vars

\* An enum was finalized and verified whose block has a field line before
\* its first variant header; the variant has no entry.
C18_Witness ==
    \E i \in Verified :
        /\ layouts[i].kind.tag = "Enum"
        /\ Len(blocks[i]) >= 3
        /\ blocks[i][2].shape = "field"
        /\ blocks[i][3].shape = "variant"
        /\ layouts[i].kind.variants[1].entries = <<>>

====
